---- MODULE Spec2Model ----
EXTENDS Integers, Sequences, FiniteSets, TLC

(***************************************************************************)
(* MarketPulse: the signal store, weekly brief generation, the evaluator,  *)
(* the signal collection job and the entity cache, as state machines.      *)
(* Scores are kept in tenths (80 is 8.0); dates are day numbers, day 0 a   *)
(* Monday.                                                                 *)
(***************************************************************************)

\* ---------------------------------------------------------------- bounds
MaxDay == 1
MaxSignals == 2
MaxJobs == 2
MaxSources == 2
MaxRuns == 2
MaxEntries == 2
MaxRows == 3
MaxEntityOps == 1
MaxIds == 4
MaxEvals == 1
MaxDue == 2
MaxFires == 3
MaxCluster == 3
MaxWords == 4

\* -------------------------------------------------------- program constants
WindowDays == 6
CompetitorShare == 4
CriticalPenalty == 30
MajorPenalty == 15
MinorPenalty == 5
MaxScore == 100
FallbackScore == 80
PassThreshold == 90
MaxActions == 3
MinActions == 2
max_instances == 1

None == "None"

VARIABLES
    today,          \* date.today()
    signals,        \* table signals
    entities,       \* table entities
    links,          \* table signal_entities
    themes,         \* table themes
    briefs,         \* table weekly_briefs
    evalRuns,       \* table evaluation_runs
    evalIssues,     \* table evaluation_issues
    nextId,         \* the next signal's primary key
    openai_api_key, \* settings.openai_api_key
    job,            \* the invocations of generate_weekly_brief_job in flight
    jobsStarted,    \* how many invocations have begun
    jobLog,         \* the results of the invocations that have returned
    sources,        \* table data_sources
    coll,           \* the invocation of collect_signals_job
    runsStarted,    \* how many collection runs have begun
    _ENTITY_CACHE,  \* the module global of collectors/classification.py
    lastExtract,    \* whether the last extract_entities_from_db saw the table as it was
    entityOps,      \* how many curator edits of the entity catalogue
    call,           \* the last direct call of a function: its arguments and its result
    sched           \* the scheduler's jobs: due fire times, running instances

collState == <<sources, coll, runsStarted, _ENTITY_CACHE, lastExtract, entityOps>>

briefState == <<today, themes, briefs, evalRuns, evalIssues, openai_api_key, job,
                jobsStarted, jobLog>>

vars == <<today, signals, entities, links, themes, briefs, evalRuns, evalIssues,
          nextId, openai_api_key, job, jobsStarted, jobLog, sources, coll, runsStarted,
          _ENTITY_CACHE, lastExtract, entityOps, call, sched>>

\* ------------------------------------------------------------- input sets
\* The callers of generate_weekly_brief_job: the APScheduler thread and the
\* request thread of POST /admin/generate-brief.
Procs == {"scheduler", "admin"}

KeyStates == {"missing", "placeholder", "valid"}

\* Signals a curator posts: raw topic strings differ in case and padding.
SignalInputs ==
    { [entity |-> "Wiley", topic |-> "Open Access", source_url |-> "u1",
       confidence |-> "High", impact_areas |-> {"Ops", "Tech"}, entity_tags |-> {}],
      [entity |-> "Cactus", topic |-> " open access", source_url |-> "u1",
       confidence |-> "Low", impact_areas |-> {"Tech"}, entity_tags |-> {}],
      [entity |-> "Wiley", topic |-> "AI", source_url |-> "u2",
       confidence |-> "Medium", impact_areas |-> {"Integrity"}, entity_tags |-> {"Cactus"}] }

\* the signal a curator posts, and posts again, beside the collectors
CuratorInputs == { inp \in SignalInputs : inp.source_url = "u1" /\ inp.entity = "Wiley" }

\* What client.chat.completions.create does for one narrative request.
SoWhatOutcomes == {"raise", "no_content", "text"}
NowWhatOutcomes == {"raise", "lines3", "line1"}

\* ---------------------------------------------------------------- helpers
Max(a, b) == IF a >= b THEN a ELSE b
Min(a, b) == IF a <= b THEN a ELSE b

Range(s) == { s[i] : i \in 1..Len(s) }

\* All orderings of a finite set as sequences without repetition.
Perms(S) ==
    { s \in [1..Cardinality(S) -> S] : \A i, j \in 1..Cardinality(S) : s[i] = s[j] => i = j }

\* str.lower().strip() on the topic strings in use
LowerStrip(t) ==
    CASE t = "Open Access" -> "open access"
      [] t = " open access" -> "open access"
      [] t = "AI" -> "ai"
      [] OTHER -> t

\* entity_lower contains one of KNOWN_COMPETITORS
KnownCompetitorName(e) == e \in {"Cactus"}

\* ------------------------------------------------------- theme synthesis
NonDeleted == { s \in signals : ~s.deleted }

\* Signal.entity_links joined to Entity, read when the attribute is touched
CompetitorLinked(s) ==
    \E l \in links : /\ l.signal_id = s.id
                     /\ \E e \in entities : e.id = l.entity_id /\ e.segment = "competitor"

IsCompetitorSignal(s) == CompetitorLinked(s) \/ KnownCompetitorName(s.entity)

RECURSIVE TopicOrder(_)
TopicOrder(sigs) ==
    IF sigs = <<>> THEN <<>>
    ELSE LET rest == TopicOrder(SubSeq(sigs, 1, Len(sigs) - 1))
             k == LowerStrip(sigs[Len(sigs)].topic)
         IN  IF k \in Range(rest) THEN rest ELSE Append(rest, k)

\* variant: the topic as written is the key
ClusterByRawTopic(sigs) ==
    LET topics == { sigs[i].topic : i \in 1..Len(sigs) }
        order == CHOOSE q \in Perms(topics) : TRUE
    IN  [ i \in 1..Len(order) |->
            [ topic |-> order[i],
              signals |-> SelectSeq(sigs, LAMBDA s : s.topic = order[i]) ] ]

\* dict of normalized topic -> signals, in insertion order
cluster_signals_by_topic(sigs) ==
    LET order == TopicOrder(sigs)
    IN  [ i \in 1..Len(order) |->
            [ topic |-> order[i],
              signals |-> SelectSeq(sigs, LAMBDA s : LowerStrip(s.topic) = order[i]) ] ]

\* variant: the lowest confidence of the cluster
LowestConfidence(sigs) ==
    IF \E i \in 1..Len(sigs) : sigs[i].confidence = "Low" THEN "Low"
    ELSE IF \E i \in 1..Len(sigs) : sigs[i].confidence = "Medium" THEN "Medium"
    ELSE "High"

aggregate_confidence(sigs) ==
    IF \A i \in 1..Len(sigs) : sigs[i].confidence = "High" THEN "High"
    ELSE IF \E i \in 1..Len(sigs) : sigs[i].confidence = "Low" THEN "Medium"
    ELSE "High"

collect_impact_areas(sigs) == UNION { sigs[i].impact_areas : i \in 1..Len(sigs) }

collect_key_players(sigs) == { sigs[i].entity : i \in 1..Len(sigs) }

is_competitor_theme(sigs) ==
    /\ Len(sigs) > 0
    /\ CompetitorShare * Cardinality({ i \in 1..Len(sigs) : IsCompetitorSignal(sigs[i]) })
         >= Len(sigs)

\* ---------------------------------------------------- narrative generation
\* A narrative value: where it came from and what it is known to contain.
Narrative(src, size, topic, names) ==
    [src |-> src, size |-> size, topic |-> topic, names |-> names]

_generate_so_what_template(topic, sigs, impact_areas) ==
    LET players == collect_key_players(sigs)
    IN  IF Cardinality(players) > 1
        THEN Narrative("template", 1, topic, {})
        ELSE Narrative("template", 1, topic, players)

_generate_now_what_template(topic, sigs, impact_areas) ==
    LET players == collect_key_players(sigs)
        named == IF Cardinality(players) > 3
                 THEN CHOOSE S \in SUBSET players : Cardinality(S) = 3
                 ELSE players
    IN  Narrative("template", Min(3, MaxActions), topic, named)

\* the guard in front of the OpenAI client: no key, or the placeholder key
KeyUnavailable(key) == key \in {"missing", "placeholder"}

\* What the body of the try block ends with: an exception class or a value.
SoWhatTry(outcome) ==
    CASE outcome = "raise" -> [exc |-> "APIError", value |-> None]
      [] outcome = "no_content" -> [exc |-> "AttributeError", value |-> None]
      [] outcome = "empty" -> [exc |-> None, value |-> Narrative("llm", 0, None, {})]
      [] OTHER -> [exc |-> None, value |-> Narrative("llm", 1, None, {})]

LineCount(outcome) ==
    CASE outcome = "line1" -> 1
      [] outcome = "lines2" -> 2
      [] outcome = "lines3" -> 3
      [] outcome = "lines4" -> 4
      [] OTHER -> 0

NowWhatTry(outcome, fallback) ==
    CASE outcome = "raise" -> [exc |-> "APIError", value |-> None]
      [] OTHER ->
           [exc |-> None,
            value |-> IF LineCount(outcome) >= MinActions
                      THEN Narrative("llm", Min(LineCount(outcome), MaxActions), None, {})
                      ELSE fallback]

\* variant: the handler names the client's error class only
ExceptAPIErrorOnly(exc) == exc = "APIError"

\* except Exception as e
ExceptException(exc) == TRUE

\* The result of a call: a value, or the exception that escapes it.
Returned(v) == [raised |-> FALSE, value |-> v]
Raised == [raised |-> TRUE, value |-> None]

\* A result, and whether client.chat.completions.create was reached on the
\* way to it.
WithCall(res, called) == res @@ [called |-> called]

generate_so_what(key, outcome, topic, sigs, impact_areas) ==
    IF KeyUnavailable(key)
    THEN WithCall(Returned(_generate_so_what_template(topic, sigs, impact_areas)), FALSE)
    ELSE LET r == SoWhatTry(outcome)
         IN  WithCall(IF r.exc = None THEN Returned(r.value)
                      ELSE IF ExceptException(r.exc)
                           THEN Returned(_generate_so_what_template(topic, sigs, impact_areas))
                           ELSE Raised,
                      TRUE)

generate_now_what(key, outcome, topic, sigs, impact_areas) ==
    IF KeyUnavailable(key)
    THEN WithCall(Returned(_generate_now_what_template(topic, sigs, impact_areas)), FALSE)
    ELSE LET r == NowWhatTry(outcome, _generate_now_what_template(topic, sigs, impact_areas))
         IN  WithCall(IF r.exc = None THEN Returned(r.value)
                      ELSE IF ExceptException(r.exc)
                           THEN Returned(_generate_now_what_template(topic, sigs, impact_areas))
                           ELSE Raised,
                      TRUE)

create_theme_from_cluster(key, topic, sigs, so_outcome, now_outcome) ==
    LET impact_areas == collect_impact_areas(sigs)
    IN  [ topic |-> topic,
          signal_ids |-> [ i \in 1..Len(sigs) |-> sigs[i].id ],
          key_players |-> collect_key_players(sigs),
          aggregate_confidence |-> aggregate_confidence(sigs),
          impact_areas |-> impact_areas,
          so_what |-> generate_so_what(key, so_outcome, topic, sigs, impact_areas),
          now_what |-> generate_now_what(key, now_outcome, topic, sigs, impact_areas),
          is_competitor |-> is_competitor_theme(sigs),
          so_outcome |-> so_outcome,
          now_outcome |-> now_outcome ]

confidence_score(c) ==
    CASE c = "High" -> 3 [] c = "Medium" -> 2 [] c = "Low" -> 1 [] OTHER -> 0

\* variant: the key without the competitor flag
SortKeyIgnoringCompetitor(theme) ==
    << 0,
       Cardinality(theme.impact_areas),
       Len(theme.signal_ids),
       confidence_score(theme.aggregate_confidence) >>

sort_key(theme) ==
    << IF theme.is_competitor THEN 1 ELSE 0,
       Cardinality(theme.impact_areas),
       Len(theme.signal_ids),
       confidence_score(theme.aggregate_confidence) >>

RECURSIVE TupleLess(_, _)
TupleLess(a, b) ==
    IF a = <<>> THEN FALSE
    ELSE IF Head(a) # Head(b) THEN Head(a) < Head(b)
    ELSE TupleLess(Tail(a), Tail(b))

\* sorted(themes, key=sort_key, reverse=True): stable, descending
RECURSIVE rank_themes(_)
rank_themes(ts) ==
    IF ts = <<>> THEN <<>>
    ELSE LET front == rank_themes(SubSeq(ts, 1, Len(ts) - 1))
             t == ts[Len(ts)]
             n == Cardinality({ i \in 1..Len(front) : ~TupleLess(sort_key(front[i]), sort_key(t)) })
         IN  SubSeq(front, 1, n) \o <<t>> \o SubSeq(front, n + 1, Len(front))

\* outcomes[i] is what the service does for the i-th cluster's two requests
synthesize_weekly_themes(key, sigs, outcomes) ==
    IF sigs = <<>> THEN <<>>
    ELSE LET clusters == cluster_signals_by_topic(sigs)
         IN  rank_themes([ i \in 1..Len(clusters) |->
                 create_theme_from_cluster(key, clusters[i].topic, clusters[i].signals,
                                           outcomes[i].so, outcomes[i].now) ])

\* ------------------------------------------------------------- evaluation
\* What happens inside evaluate_with_llm: the Signal query or the prompt
\* builder raises (setup_error), the client, the request or the parse of the
\* reply raises (call_error), or the judge replies.
JudgeOutcomes == {"setup_error", "call_error", "reply"}

\* Without a usable key no reply arrives: the request itself fails.
JudgeOutcomesFor(key) ==
    IF KeyUnavailable(key) THEN {"setup_error", "call_error"}
    ELSE JudgeOutcomes

Scores(g, r, a, c) ==
    [grounding_score |-> g, relevance_score |-> r, actionability_score |-> a,
     coherence_score |-> c]

\* the replies of the judge: a poor one with an issue, and two good ones
JudgeReplies == {"reply", "reply_high", "reply_edge"}

JudgeReply(outcome) ==
    CASE outcome = "reply" ->
           [scores |-> Scores(60, 90, 50, 80),
            issues |-> << [type |-> "poor_grounding", severity |-> "major",
                           signal_ids |-> {}, entities |-> {}] >>]
      [] outcome = "reply_high" ->
           [scores |-> Scores(100, 90, 90, 90),
            issues |-> << [type |-> "poor_advice", severity |-> "minor",
                           signal_ids |-> {}, entities |-> {}] >>]
      [] outcome = "reply_edge" ->
           [scores |-> Scores(90, 90, 90, 80), issues |-> <<>>]
      [] OTHER -> [scores |-> Scores(0, 0, 0, 0), issues |-> <<>>]

\* the lists of a list of lists, end to end
RECURSIVE Extend(_)
Extend(lists) == IF lists = <<>> THEN <<>> ELSE Head(lists) \o Extend(Tail(lists))

\* A theme has signal_ids and key_players; a summary has key_insights, each
\* with its signal_ids and entities.
_extract_signal_ids(content) ==
    CASE content.type = "theme" -> content.signal_ids
      [] content.type = "signal_summary" ->
           Extend([ i \in 1..Len(content.key_insights) |-> content.key_insights[i].signal_ids ])
      [] OTHER -> <<>>

_extract_entities(content) ==
    CASE content.type = "theme" -> content.key_players
      [] content.type = "signal_summary" ->
           UNION { content.key_insights[i].entities : i \in 1..Len(content.key_insights) }
      [] OTHER -> {}

\* variant: the query without the deleted_at filter
MissingFromTable(signal_ids) ==
    LET existing == { s.id : s \in signals }
    IN  SelectSeq(signal_ids, LAMBDA sid : sid \notin existing)

_check_signal_ids_exist(signal_ids) ==
    LET existing == { s.id : s \in NonDeleted }
    IN  SelectSeq(signal_ids, LAMBDA sid : sid \notin existing)

_check_entities_in_signals(signal_ids, ents) ==
    LET cited == { s \in NonDeleted : s.id \in Range(signal_ids) }
        signal_entities == { s.entity : s \in cited } \cup UNION { s.entity_tags : s \in cited }
    IN  ents \ signal_entities

Clamp(x) == Max(0, Min(MaxScore, x))

\* variant: every issue costs the same, whatever its severity
FlatPenalty(issue) == MajorPenalty

Penalty(issue) ==
    CASE issue.severity = "critical" -> CriticalPenalty
      [] issue.severity = "major" -> MajorPenalty
      [] issue.severity = "minor" -> MinorPenalty
      [] OTHER -> 0

RECURSIVE SumPenalty(_)
SumPenalty(issues) ==
    IF issues = <<>> THEN 0 ELSE Penalty(Head(issues)) + SumPenalty(Tail(issues))

check_hallucinations(content) ==
    LET signal_ids == _extract_signal_ids(content)
        missing == _check_signal_ids_exist(signal_ids)
        ents == _extract_entities(content)
        fabricated == _check_entities_in_signals(signal_ids, ents)
        i1 == IF signal_ids # <<>> /\ missing # <<>>
              THEN << [type |-> "hallucination", severity |-> "critical",
                       signal_ids |-> Range(missing), entities |-> {}] >>
              ELSE <<>>
        i2 == IF ents # {} /\ signal_ids # <<>> /\ fabricated # {}
              THEN << [type |-> "hallucination", severity |-> "critical",
                       signal_ids |-> {}, entities |-> fabricated] >>
              ELSE <<>>
        i3 == IF content.type = "signal_summary" /\ content.total_signals # Len(signal_ids)
              THEN << [type |-> "hallucination", severity |-> "major",
                       signal_ids |-> {}, entities |-> {}] >>
              ELSE <<>>
        issues == i1 \o i2 \o i3
    IN  [score |-> Clamp(MaxScore - SumPenalty(issues)), issues |-> issues]

\* The statements of evaluate_with_llm in order: the query and the prompt
\* builder run before the try block, the rest inside it.
evaluate_with_llm(outcome) ==
    IF outcome = "setup_error" THEN Raised
    ELSE IF outcome = "call_error"
         THEN Returned([scores |-> Scores(FallbackScore, FallbackScore, FallbackScore,
                                          FallbackScore),
                        issues |-> <<>>])
         ELSE Returned(JudgeReply(outcome))

\* Whether the judge's request goes out: openai.OpenAI(api_key=None) raises
\* before any request, and a key that is set, the placeholder too, is sent.
JudgeRequested(key, outcome) == outcome # "setup_error" /\ key # "missing"

RECURSIVE SumSeq(_)
SumSeq(q) == IF q = <<>> THEN 0 ELSE Head(q) + SumSeq(Tail(q))

\* a score in hundredths: the mean of scores in tenths need not be in tenths
Hundredths(tenths) == 10 * tenths

\* variant: the mean of the judge's four scores
OverallOfJudgeScores(all_scores) ==
    Hundredths(SumSeq(Tail(all_scores))) \div Len(Tail(all_scores))

\* sum(all_scores.values()) / len(all_scores), in hundredths
overall_score(all_scores) == Hundredths(SumSeq(all_scores)) \div Len(all_scores)

ThemeContent(theme) ==
    [type |-> "theme", signal_ids |-> theme.signal_ids, key_players |-> theme.key_players,
     key_insights |-> <<>>, total_signals |-> 0]

\* The EvaluationRun and EvaluationIssue rows evaluate_content commits, or
\* the exception that escapes it.
evaluate_content(content, content_id, outcome, run_id) ==
    LET h == check_hallucinations(content)
        llm == evaluate_with_llm(outcome)
    IN  IF llm.raised THEN Raised
        ELSE LET sc == llm.value.scores
                 all_scores == << h.score, sc.grounding_score, sc.relevance_score,
                                  sc.actionability_score, sc.coherence_score >>
                 overall == overall_score(all_scores)
                 all_issues == h.issues \o llm.value.issues
             IN  Returned(
                   [run |-> [id |-> run_id, content_id |-> content_id,
                             hallucination_score |-> h.score, scores |-> sc,
                             overall_score |-> overall,
                             passed |-> (overall >= Hundredths(PassThreshold))],
                    issues |-> { [evaluation_run_id |-> run_id, n |-> i,
                                  issue |-> all_issues[i]] : i \in 1..Len(all_issues) }])

\* ------------------------------------------------------------ signal store
\* Primary keys are fresh uuids; here a signal takes the next number and the
\* rows a job writes are numbered after the job: 0 is no row.
ThemeId(jobno, i) == 100 + 10 * jobno + i
BriefId(jobno) == 200 + jobno
RunId(jobno, i) == 300 + 10 * jobno + i

IdleJob ==
    [pc |-> "idle", no |-> 0, ref |-> 0, found |-> FALSE, brief |-> 0, theme_dicts |-> <<>>,
     theme_ids |-> <<>>, nsignals |-> 0, made |-> {}, evals |-> <<>>, raised |-> FALSE,
     pre |-> [briefs |-> {}, themes |-> {}, evalRuns |-> {}, evalIssues |-> {}],
     post |-> [briefs |-> {}, themes |-> {}, evalRuns |-> {}, evalIssues |-> {}]]

\* two of the rows the seed migration inserts
SeedEntities ==
    { [id |-> 901, name |-> "Wiley", segment |-> "customer",
       aliases |-> {"Wiley", "Wiley-Blackwell"}],
      [id |-> 902, name |-> "Cactus Communications", segment |-> "competitor",
       aliases |-> {"Cactus", "Cactus Communications"}] }

NoCache == [loaded |-> FALSE, rows |-> {}]

NoCall == [op |-> "none"]

\* the ids init_scheduler gives its two jobs
JobIds == {"weekly_brief_generation", "signal_collection"}

\* A job of the scheduler: whether it was added, the fire times that have
\* passed since the scheduler last looked (TRUE: within misfire_grace_time),
\* the instances the executor is running, the fire times handed to the
\* running instance, and counters.
NoSchedJob ==
    [scheduled |-> FALSE, due |-> <<>>, instances |-> 0, run_times |-> <<>>, fired |-> 0,
     merged |-> 0, skipped |-> 0, missed |-> 0, calls |-> 0]

IdleRun ==
    [pc |-> "idle", no |-> 0, queue |-> <<>>, source |-> 0, pending |-> <<>>,
     source_signals |-> 0, source_pending |-> 0, source_duplicates |-> 0,
     total_signals |-> 0, total_pending |-> 0, sources_processed |-> 0, errors |-> 0,
     notified |-> FALSE, created |-> {}, skipped |-> {}, pre |-> {}, post |-> {},
     enabled |-> {}, attempted |-> {}, raised |-> 0]

\* everything but the signals table
InitOther ==
    /\ today = 0
    /\ entities = SeedEntities
    /\ links = {}
    /\ themes = {}
    /\ briefs = {}
    /\ evalRuns = {}
    /\ evalIssues = {}
    /\ openai_api_key \in KeyStates
    /\ job = [p \in Procs |-> IdleJob]
    /\ jobsStarted = 0
    /\ jobLog = {}
    /\ sources = {}
    /\ coll = IdleRun
    /\ runsStarted = 0
    /\ _ENTITY_CACHE = NoCache
    /\ lastExtract = [called |-> FALSE, fresh |-> TRUE]
    /\ entityOps = 0
    /\ call = NoCall
    /\ sched = [id \in JobIds |-> NoSchedJob]

Init ==
    /\ InitOther
    /\ signals = {}
    /\ nextId = 1

SignalRow(id, inp, status, data_source_id) ==
    [id |-> id, data_source_id |-> data_source_id, entity |-> inp.entity, topic |-> inp.topic, source_url |-> inp.source_url,
     confidence |-> inp.confidence, impact_areas |-> inp.impact_areas,
     entity_tags |-> inp.entity_tags, status |-> status, created_at |-> today,
     deleted |-> FALSE]

\* POST /signals: the row is added and committed with no look at source_url
create_signal(inp) ==
    /\ Cardinality(signals) < MaxSignals
    /\ nextId <= MaxIds
    /\ signals' = signals \cup {SignalRow(nextId, inp, "approved", 0)}
    /\ nextId' = nextId + 1
    /\ UNCHANGED <<call, sched, collState, today, entities, links, themes, briefs, evalRuns, evalIssues,
                   openai_api_key, job, jobsStarted, jobLog>>

get_signal(signal_id) == { s \in NonDeleted : s.id = signal_id }

\* DELETE /signals/{id}
soft_delete_signal(signal_id) ==
    /\ get_signal(signal_id) # {}
    /\ signals' = { IF s.id = signal_id /\ ~s.deleted THEN [s EXCEPT !.deleted = TRUE] ELSE s
                    : s \in signals }
    /\ UNCHANGED <<call, sched, collState, today, entities, links, themes, briefs, evalRuns, evalIssues, nextId,
                   openai_api_key, job, jobsStarted, jobLog>>

\* midnight
Tick ==
    /\ today < MaxDay
    /\ today' = today + 1
    /\ UNCHANGED <<call, sched, collState, signals, entities, links, themes, briefs, evalRuns, evalIssues, nextId,
                   openai_api_key, job, jobsStarted, jobLog>>

\* --------------------------------------------------------- brief generation
\* variant: the window is the calendar week (Monday to Sunday) of the date
CalendarWeekBoundaries(reference_date) ==
    LET monday == reference_date - (reference_date % (WindowDays + 1))
    IN  <<monday, monday + WindowDays>>

get_week_boundaries(reference_date) == <<reference_date - WindowDays, reference_date>>

\* variant: the two filter arguments change places
ExistingBriefSwapped(week_start, week_end) ==
    { b \in briefs : b.week_start = week_end /\ b.week_end = week_start }

\* the rows the query matches; .first() yields one of them
get_existing_brief_for_week(week_start, week_end) ==
    { b \in briefs : b.week_start = week_start /\ b.week_end = week_end }

\* the rows of the query, and the orders ORDER BY created_at DESC allows
get_signals_for_week(week_end) ==
    { s \in NonDeleted : s.created_at >= week_end - WindowDays /\ s.created_at <= week_end }

WeekOrderings(S) ==
    { q \in Perms(S) : \A i, j \in 1..Len(q) : i < j => q[i].created_at >= q[j].created_at }

OutcomePairsFor(key) ==
    IF KeyUnavailable(key) THEN {[so |-> "not_called", now |-> "not_called"]}
    ELSE [so : SoWhatOutcomes, now : NowWhatOutcomes]

\* the same, and the replies at the edges: a message of no text or of blanks
\* only, and one of more lines than a theme keeps
AnyOutcomePairsFor(key) ==
    IF KeyUnavailable(key) THEN {[so |-> "not_called", now |-> "not_called"]}
    ELSE [so : SoWhatOutcomes \cup {"empty"},
          now : NowWhatOutcomes \cup {"empty", "lines2", "lines4"}]

Snapshot == [briefs |-> briefs, themes |-> themes, evalRuns |-> evalRuns,
             evalIssues |-> evalIssues]

Running(p) == job[p].pc \in {"save", "brief", "evaluate"}

\* variant: the handler reports what had been done when the exception came
PartialProgressResult(j) ==
    [no |-> j.no, ref |-> j.ref, success |-> FALSE, brief_id |-> 0,
     themes_created |-> Len(j.theme_ids), signals_processed |-> j.nsignals,
     found |-> j.found, made |-> j.made, raised |-> j.raised]

\* the dictionary the handler of the job returns
FailureResult(j) ==
    [no |-> j.no, ref |-> j.ref, success |-> FALSE, brief_id |-> 0,
     themes_created |-> 0, signals_processed |-> 0,
     found |-> j.found, made |-> j.made, raised |-> j.raised]

\* the dictionary the job returns when generate_weekly_brief has returned:
\* no brief, or the counts of the brief it returned
SuccessResult(j) ==
    LET b == { x \in briefs : x.id = j.brief }
    IN  [no |-> j.no, ref |-> j.ref, success |-> TRUE, brief_id |-> j.brief,
         themes_created |-> IF b = {} THEN 0 ELSE Len((CHOOSE x \in b : TRUE).theme_ids),
         signals_processed |-> IF b = {} THEN 0 ELSE (CHOOSE x \in b : TRUE).total_signals,
         found |-> j.found, made |-> j.made, raised |-> j.raised]

\* the job's return value
JobResult(j) == IF j.pc = "failed" THEN FailureResult(j) ELSE SuccessResult(j)

\* except Exception around generate_weekly_brief and the evaluation
OnJobError(j) == [j EXCEPT !.pc = "failed", !.raised = TRUE]

\* generate_weekly_brief up to its first write: the existence check, the
\* week's signals and the synthesis of the theme dicts, the generative
\* service doing for each cluster one of the given pairs.  The slot's last
\* result goes to the log.
GenStartWith(p, pairs) ==
    /\ ~Running(p)
    /\ jobsStarted < MaxJobs
    /\ jobsStarted' = jobsStarted + 1
    /\ jobLog' = IF job[p].pc = "idle" THEN jobLog ELSE jobLog \cup {JobResult(job[p])}
    /\ LET wb == get_week_boundaries(today)
           existing == get_existing_brief_for_week(wb[1], wb[2])
           sigs == get_signals_for_week(wb[2])
           started == [IdleJob EXCEPT !.no = jobsStarted + 1, !.ref = today, !.pre = Snapshot,
                                     !.post = Snapshot]
       IN  IF existing # {}
           THEN \E b \in existing :
                  job' = [job EXCEPT ![p] =
                            [started EXCEPT !.pc = "evaluate", !.found = TRUE,
                                            !.brief = b.id]]
           ELSE IF sigs = {}
           THEN job' = [job EXCEPT ![p] = [started EXCEPT !.pc = "done"]]
           ELSE \E order \in WeekOrderings(sigs) :
                \E outcomes \in [1..Len(cluster_signals_by_topic(order)) -> pairs] :
                  LET dicts == synthesize_weekly_themes(openai_api_key, order, outcomes)
                  IN  job' = [job EXCEPT ![p] =
                        IF \E i \in 1..Len(dicts) : dicts[i].so_what.raised \/ dicts[i].now_what.raised
                        THEN OnJobError(started)
                        ELSE [started EXCEPT !.pc = "save", !.theme_dicts = dicts,
                                             !.nsignals = Cardinality(sigs)]]
    /\ UNCHANGED <<call, sched, collState, today, signals, entities, links, themes, briefs, evalRuns, evalIssues,
                   nextId, openai_api_key>>

GenStart(p) == GenStartWith(p, OutcomePairsFor(openai_api_key))

ThemeRow(id, d) ==
    [id |-> id, title |-> d.topic, signal_ids |-> d.signal_ids, key_players |-> d.key_players,
     aggregate_confidence |-> d.aggregate_confidence, impact_areas |-> d.impact_areas,
     so_what |-> d.so_what.value, now_what |-> d.now_what.value]

\* save_themes: one Theme row per dict, one commit
GenSaveThemes(p) ==
    /\ job[p].pc = "save"
    /\ LET dicts == job[p].theme_dicts
           ids == [ i \in 1..Len(dicts) |-> ThemeId(job[p].no, i) ]
       IN  /\ themes' = themes \cup { ThemeRow(ids[i], dicts[i]) : i \in 1..Len(dicts) }
           /\ job' = [job EXCEPT ![p].pc = "brief", ![p].theme_ids = ids]
    /\ UNCHANGED <<call, sched, collState, today, signals, entities, links, briefs, evalRuns, evalIssues, nextId,
                   openai_api_key, jobsStarted, jobLog>>

\* the INSERT into weekly_briefs
InsertBrief(row) == briefs' = briefs \cup {row}

\* create_weekly_brief
GenCreateBrief(p) ==
    /\ job[p].pc = "brief"
    /\ LET wb == get_week_boundaries(job[p].ref)
           mine == { t \in themes : t.id \in Range(job[p].theme_ids) }
           id == BriefId(job[p].no)
       IN  /\ InsertBrief([id |-> id, week_start |-> wb[1], week_end |-> wb[2],
                           theme_ids |-> job[p].theme_ids,
                           total_signals |-> job[p].nsignals,
                           coverage_areas |-> UNION { t.impact_areas : t \in mine }])
           /\ job' = [job EXCEPT ![p].pc = "evaluate", ![p].brief = id, ![p].made = {id}]
    /\ UNCHANGED <<call, sched, collState, today, signals, entities, links, themes, evalRuns, evalIssues, nextId,
                   openai_api_key, jobsStarted, jobLog>>

\* the commit of save_themes or of create_weekly_brief raises: the session
\* cannot reach the database
GenFail(p) ==
    /\ job[p].pc \in {"save", "brief"}
    /\ job' = [job EXCEPT ![p] = OnJobError(job[p])]
    /\ UNCHANGED <<call, sched, collState, today, signals, entities, links, themes, briefs, evalRuns,
                   evalIssues, nextId, openai_api_key, jobsStarted, jobLog>>

get_themes_by_ids(theme_ids) ==
    SelectSeq(theme_ids, LAMBDA tid : \E t \in themes : t.id = tid)

ThemeById(tid) == CHOOSE t \in themes : t.id = tid

\* generate_weekly_brief_job after generate_weekly_brief has returned a
\* brief: every theme of the brief is evaluated, an exception from one
\* evaluation is caught and the loop goes on.
JobEvaluate(p) ==
    /\ job[p].pc = "evaluate"
    /\ LET b == CHOOSE x \in briefs : x.id = job[p].brief
           ts == get_themes_by_ids(b.theme_ids)
       IN  \E outcomes \in [1..Len(ts) -> JudgeOutcomesFor(openai_api_key)] :
             LET res == [ i \in 1..Len(ts) |->
                            evaluate_content(ThemeContent(ThemeById(ts[i])), ts[i],
                                             outcomes[i], RunId(job[p].no, i)) ]
                 ok == { i \in 1..Len(ts) : ~res[i].raised }
             IN  /\ evalRuns' = evalRuns \cup { res[i].value.run : i \in ok }
                 /\ evalIssues' = evalIssues \cup UNION { res[i].value.issues : i \in ok }
                 /\ job' = [job EXCEPT ![p].pc = "done",
                              ![p].post = [briefs |-> briefs, themes |-> themes,
                                           evalRuns |-> evalRuns', evalIssues |-> evalIssues'],
                              ![p].evals = [ i \in 1..Len(ts) |->
                                  [content_id |-> ts[i], outcome |-> outcomes[i],
                                   raised |-> res[i].raised,
                                   requested |-> JudgeRequested(openai_api_key, outcomes[i]),
                                   run |-> IF res[i].raised THEN 0 ELSE RunId(job[p].no, i)] ]]
    /\ UNCHANGED <<call, sched, collState, today, signals, entities, links, themes, briefs, nextId, openai_api_key,
                   jobsStarted, jobLog>>

\* a summary of the given insights that claims the given count
SummaryContent(key_insights, total_signals) ==
    [type |-> "signal_summary", signal_ids |-> <<>>, key_players |-> {},
     key_insights |-> key_insights, total_signals |-> total_signals]

\* Content handed to evaluate_content: a theme, or a signal summary of one
\* insight that claims one signal; the signal ids it cites and the entities
\* it names.
ContentInputs ==
    LET cited == { <<>>, <<1>>, <<1, 2>> }
        named == { {"Wiley"}, {"Karger"} }
    IN  { [type |-> "theme", signal_ids |-> ids, key_players |-> e, key_insights |-> <<>>,
           total_signals |-> 0] : ids \in cited, e \in named }
        \cup { SummaryContent(<< [signal_ids |-> ids, entities |-> e] >>, 1)
                : ids \in cited, e \in named }

\* the same, and summaries of two insights: the second cites the signal of
\* the first again, or another, or both
CheckInputs ==
    ContentInputs \cup
      { SummaryContent(<< [signal_ids |-> <<1>>, entities |-> {"Wiley"}],
                          [signal_ids |-> ids, entities |-> e] >>, n)
        : ids \in { <<1>>, <<2>>, <<1, 2>> }, e \in { {"Wiley"}, {"Cactus"} }, n \in {1, 2} }

\* check_hallucinations called on its own
ApplyCheck(content) ==
    /\ call' = [op |-> "check_hallucinations", content |-> content,
                out |-> check_hallucinations(content)]
    /\ UNCHANGED <<sched, briefState, collState, signals, entities, links, nextId>>

EvaluateOutcomes == JudgeOutcomes \cup JudgeReplies

\* evaluate_content called on its own: the rule-based pass, the judge, and
\* the commit of the run and its issues
RunEvaluation(content, outcome) ==
    /\ Cardinality(evalRuns) < MaxEvals
    /\ LET id == RunId(MaxJobs + 1, Cardinality(evalRuns) + 1)
           res == evaluate_content(content, 0, outcome, id)
       IN  /\ evalRuns' = IF res.raised THEN evalRuns ELSE evalRuns \cup {res.value.run}
           /\ evalIssues' = IF res.raised THEN evalIssues
                            ELSE evalIssues \cup res.value.issues
           /\ call' = [op |-> "evaluate_content", content |-> content,
                       hall |-> check_hallucinations(content)]
    /\ UNCHANGED <<sched, collState, today, signals, entities, links, themes, briefs, nextId,
                   openai_api_key, job, jobsStarted, jobLog>>

\* ------------------------------------------------------------ classification
\* Words and phrases a text can contain; none is a substring of another or
\* contains a keyword other than itself.
Vocabulary ==
    {"toc alert", "announce", "hire", "retraction", "open access", "workflow", "contract"}

\* A text: the phrases it contains, and whether it has 100 characters or more.
Texts ==
    { t \in [long : BOOLEAN, words : SUBSET Vocabulary] : Cardinality(t.words) <= MaxWords }

\* the three keyword dicts in the order of their items, each list cut down
\* to the vocabulary
EVENT_TYPE_KEYWORDS ==
    << [name |-> "announcement", keywords |-> {"announce"}],
       [name |-> "hire", keywords |-> {"hire"}],
       [name |-> "retraction", keywords |-> {"retraction"}] >>

TOPIC_KEYWORDS ==
    << [name |-> "Open Access", keywords |-> {"open access"}],
       [name |-> "Integrity", keywords |-> {"retraction"}],
       [name |-> "Workflow", keywords |-> {"workflow"}] >>

IMPACT_AREA_KEYWORDS ==
    << [name |-> "Ops", keywords |-> {"workflow"}],
       [name |-> "Integrity", keywords |-> {"retraction"}],
       [name |-> "Procurement", keywords |-> {"contract"}] >>

\* the groups of a dict with a keyword in the text, in dict order
Matches(dict, text) ==
    LET hit == SelectSeq(dict, LAMBDA g : g.keywords \cap text.words # {})
    IN  [ i \in 1..Len(hit) |-> hit[i].name ]

is_relevant_to_stm(text) ==
    LET irrelevant_patterns == {"toc alert"}
        relevant_keywords == {"announce", "retraction", "open access", "workflow"}
    IN  IF text.words \cap irrelevant_patterns # {} THEN FALSE
        ELSE IF ~text.long /\ text.words \cap relevant_keywords = {} THEN FALSE
        ELSE TRUE

\* variant: a text with an event type and no topic is accepted without topic
ClassifyWithoutTopic(text) ==
    LET events == Matches(EVENT_TYPE_KEYWORDS, text)
        topics == Matches(TOPIC_KEYWORDS, text)
        areas == Matches(IMPACT_AREA_KEYWORDS, text)
    IN  IF ~is_relevant_to_stm(text) \/ (events = <<>> /\ topics = <<>>)
        THEN [none |-> TRUE]
        ELSE [none |-> FALSE,
              event_type |-> IF events = <<>> THEN "other" ELSE events[1],
              topic |-> IF topics = <<>> THEN None ELSE topics[1],
              impact_areas |-> IF areas = <<>> THEN <<"Ops">> ELSE areas]

classify_text(text) ==
    LET events == Matches(EVENT_TYPE_KEYWORDS, text)
        event_type == IF events = <<>> THEN None ELSE events[1]
        topics == Matches(TOPIC_KEYWORDS, text)
        topic == IF topics = <<>> THEN None ELSE topics[1]
        areas == Matches(IMPACT_AREA_KEYWORDS, text)
    IN  IF ~is_relevant_to_stm(text) THEN [none |-> TRUE]
        ELSE IF event_type = None /\ topic = None THEN [none |-> TRUE]
        ELSE IF topic = None THEN [none |-> TRUE]
        ELSE [none |-> FALSE,
              event_type |-> IF event_type = None THEN "other" ELSE event_type,
              topic |-> topic,
              impact_areas |-> IF areas = <<>> THEN <<"Ops">> ELSE areas]

\* classify_text applied to the text of one entry
ApplyClassify(text) ==
    /\ call' = [op |-> "classify_text", text |-> text, out |-> classify_text(text)]
    /\ UNCHANGED <<sched, briefState, collState, signals, entities, links, nextId>>

\* -------------------------------------------------- synthesis, step by step
\* the curators' signals, and one more on the first topic, of Medium confidence
ClusterInputs ==
    SignalInputs \cup
      { [entity |-> "Karger", topic |-> "open access", source_url |-> "u3",
         confidence |-> "Medium", impact_areas |-> {"Procurement"}, entity_tags |-> {}] }

\* The week's signals a synthesis starts from: up to MaxCluster curated
\* signals, numbered in the order they were posted.
InputTables ==
    UNION { { { SignalRow(i, q[i], "approved", 0) : i \in 1..n } : q \in [1..n -> ClusterInputs] }
            : n \in 0..MaxCluster }

\* cluster_signals_by_topic applied to the week's signals
ApplyCluster(sigs) ==
    /\ call' = [op |-> "cluster_signals_by_topic", sigs |-> sigs,
                out |-> cluster_signals_by_topic(sigs)]
    /\ UNCHANGED <<sched, briefState, collState, signals, entities, links, nextId>>

\* aggregate_confidence applied to one cluster
ApplyAggregate(sigs) ==
    /\ call' = [op |-> "aggregate_confidence", sigs |-> sigs,
                out |-> aggregate_confidence(sigs)]
    /\ UNCHANGED <<sched, briefState, collState, signals, entities, links, nextId>>

\* ---------------------------------------------------------------- scheduler
\* variant: job_defaults without coalesce
CoalesceOff == FALSE

\* job_defaults of the BackgroundScheduler
coalesce == TRUE

\* settings.enable_automated_collection
EnableStates == BOOLEAN

\* init_scheduler: the weekly brief job is always added, the collection job
\* when automated collection is enabled
init_scheduler(enable_automated_collection) ==
    /\ \A id \in JobIds : ~sched[id].scheduled
    /\ sched' = [id \in JobIds |->
                   [sched[id] EXCEPT !.scheduled =
                      (id = "weekly_brief_generation" \/ enable_automated_collection)]]
    /\ UNCHANGED <<call, briefState, collState, signals, entities, links, nextId>>

\* a fire time of the job's cron trigger passes
TriggerFires(id) ==
    /\ sched[id].scheduled
    /\ sched[id].fired < MaxFires
    /\ Len(sched[id].due) < MaxDue
    /\ sched' = [sched EXCEPT ![id].due = Append(@, TRUE), ![id].fired = @ + 1]
    /\ UNCHANGED <<call, briefState, collState, signals, entities, links, nextId>>

\* misfire_grace_time runs out for the oldest fire time still waiting
GraceExpires(id) ==
    /\ \E i \in 1..Len(sched[id].due) :
         /\ sched[id].due[i]
         /\ \A k \in 1..(i - 1) : ~sched[id].due[k]
         /\ sched' = [sched EXCEPT ![id].due[i] = FALSE]
    /\ UNCHANGED <<call, briefState, collState, signals, entities, links, nextId>>

\* The scheduler thread wakes and processes the job: with coalesce the fire
\* times that are due become the latest one; the executor refuses the
\* submission when max_instances instances are running, otherwise an
\* instance starts with the fire times as its run times.
ProcessJob(id) ==
    /\ sched[id].due # <<>>
    /\ LET due == sched[id].due
           run_times == IF coalesce THEN << due[Len(due)] >> ELSE due
       IN  sched' = [sched EXCEPT ![id] =
                IF @.instances >= max_instances
                THEN [@ EXCEPT !.due = <<>>, !.skipped = @ + 1]
                ELSE [@ EXCEPT !.due = <<>>, !.instances = @ + 1,
                               !.run_times = run_times, !.merged = Len(due)]]
    /\ UNCHANGED <<call, briefState, collState, signals, entities, links, nextId>>

\* run_job of the executor, one run time: the job function is called unless
\* the run time is older than misfire_grace_time
RunJob(id) ==
    /\ sched[id].instances > 0
    /\ sched[id].run_times # <<>>
    /\ sched' = [sched EXCEPT ![id] =
             IF Head(@.run_times)
             THEN [@ EXCEPT !.run_times = Tail(@), !.calls = @ + 1]
             ELSE [@ EXCEPT !.run_times = Tail(@), !.missed = @ + 1]]
    /\ UNCHANGED <<call, briefState, collState, signals, entities, links, nextId>>

\* the instance returns
JobDone(id) ==
    /\ sched[id].instances > 0
    /\ sched[id].run_times = <<>>
    /\ sched' = [sched EXCEPT ![id].instances = @ - 1]
    /\ UNCHANGED <<call, briefState, collState, signals, entities, links, nextId>>

\* ------------------------------------------------------- entity catalogue
\* what a curator posts to /entities, and the alias lists a curator patches in
EntityInputs == { [name |-> "Karger", segment |-> "customer", aliases |-> {}] }
AliasInputs == { {}, {"Karger"} }

\* POST /admin/data-sources
SourceInputs ==
    { [id |-> 1, name |-> "Scholarly Kitchen", source_type |-> "rss",
       default_confidence |-> "High"],
      [id |-> 2, name |-> "Editage Insights", source_type |-> "web",
       default_confidence |-> "Medium"] }

\* Feed entries that classify: the link, and the names the text contains.
EntryInputs ==
    { [link |-> "u1", mentions |-> {"Wiley", "Cactus"}],
      [link |-> "u2", mentions |-> {"Karger"}] }

Feeds == UNION { [1..n -> EntryInputs] : n \in 0..MaxEntries }

infer_entity_segment(entity_name) ==
    CASE entity_name \in {"Editage Insights", "Cactus"} -> "competitor"
      [] entity_name \in {"Scholarly Kitchen"} -> "influencer"
      [] entity_name \in {"Karger", "Wiley"} -> "customer"
      [] OTHER -> "industry"

create_data_source(inp) ==
    /\ Cardinality(sources) < MaxSources
    /\ \A s \in sources : s.id # inp.id
    /\ sources' = sources \cup
         { [id |-> inp.id, name |-> inp.name,
            source_type |-> inp.source_type, enabled |-> TRUE,
            default_confidence |-> inp.default_confidence, error_count |-> 0,
            last_error |-> None, failed_collects |-> 0] }
    /\ UNCHANGED <<call, sched, briefState, signals, entities, links, nextId, coll, runsStarted,
                   _ENTITY_CACHE, lastExtract, entityOps>>

\* POST /entities: name is unique in the table
create_entity(inp) ==
    /\ entityOps < MaxEntityOps
    /\ \A e \in entities : e.name # inp.name
    /\ entities' = entities \cup
         { [id |-> nextId, name |-> inp.name, segment |-> inp.segment,
            aliases |-> inp.aliases] }
    /\ nextId' = nextId + 1
    /\ entityOps' = entityOps + 1
    /\ UNCHANGED <<call, sched, briefState, signals, links, sources, coll, runsStarted, _ENTITY_CACHE,
                   lastExtract>>

\* PATCH /entities/{id} with a new alias list
update_entity(entity_id, aliases) ==
    /\ entityOps < MaxEntityOps
    /\ \E e \in entities : e.id = entity_id /\ e.aliases # aliases
    /\ entities' = { IF e.id = entity_id THEN [e EXCEPT !.aliases = aliases] ELSE e
                     : e \in entities }
    /\ entityOps' = entityOps + 1
    /\ UNCHANGED <<call, sched, briefState, signals, links, nextId, sources, coll, runsStarted,
                   _ENTITY_CACHE, lastExtract>>

\* DELETE /entities/{id}: the signal_entities rows go with it
delete_entity(entity_id) ==
    /\ entityOps < MaxEntityOps
    /\ \E e \in entities : e.id = entity_id
    /\ entities' = { e \in entities : e.id # entity_id }
    /\ links' = { l \in links : l.entity_id # entity_id }
    /\ entityOps' = entityOps + 1
    /\ UNCHANGED <<call, sched, briefState, signals, nextId, sources, coll, runsStarted, _ENTITY_CACHE,
                   lastExtract>>

\* ------------------------------------------------------------ entity cache
\* (name, aliases, id) of every Entity row
_load_entity_cache == { [name |-> e.name, aliases |-> e.aliases, id |-> e.id] : e \in entities }

clear_entity_cache == NoCache

\* the list extract_entities_from_db matches against, and leaves in the global
CacheForExtract(use_cache) ==
    IF ~_ENTITY_CACHE.loaded \/ ~use_cache
    THEN [loaded |-> TRUE, rows |-> _load_entity_cache]
    ELSE _ENTITY_CACHE

\* the cached rows whose name or one of whose aliases the text contains; the
\* list comes out in the order the unordered query returned the rows
extract_entities_from_db(mentions, cache) ==
    LET found == { r \in cache.rows : r.name \in mentions \/ r.aliases \cap mentions # {} }
    IN  Perms(found)

\* ------------------------------------------------------- signal collection
\* _process_entry / _process_item: the signal dicts one entry can become
ProcessEntry(entry, source, cache) ==
    { [ entity |-> IF m # <<>> THEN m[1].name ELSE source.name,
        topic |-> "Open Access",
        source_url |-> entry.link,
        confidence |-> source.default_confidence,
        impact_areas |-> {"Ops"},
        entity_tags |-> { m[i].name : i \in 2..Len(m) },
        status |-> IF source.default_confidence = "High" THEN "approved"
                   ELSE "pending_review",
        data_source_id |-> source.id,
        entity_ids |-> [ i \in 1..Len(m) |-> m[i].id ] ]
      : m \in extract_entities_from_db(entry.mentions, cache) }

RECURSIVE CollectedDicts(_, _, _)
CollectedDicts(feed, source, cache) ==
    IF feed = <<>> THEN { <<>> }
    ELSE { <<d>> \o rest : d \in ProcessEntry(Head(feed), source, cache),
                           rest \in CollectedDicts(Tail(feed), source, cache) }

Collecting == coll.pc \in {"collect", "save"}

\* the end of the loop over the sources: the notification and the result
FinishRun(c, sigs) ==
    IF c.queue = <<>>
    THEN [c EXCEPT !.pc = "done", !.notified = (c.total_pending > 0), !.post = sigs]
    ELSE [c EXCEPT !.pc = "collect"]

\* the end of the loop over one source's dicts
FinishSource(c, sigs) ==
    IF c.pending # <<>> THEN [c EXCEPT !.pc = "save"]
    ELSE FinishRun([c EXCEPT !.total_signals = @ + c.source_signals,
                             !.total_pending = @ + c.source_pending,
                             !.sources_processed = @ + 1,
                             !.source_signals = 0, !.source_pending = 0,
                             !.source_duplicates = 0], sigs)

\* variant: the first exception from a collector ends the run
AbortOnCollectError(c, sigs) ==
    [c EXCEPT !.errors = @ + 1, !.pc = "done", !.notified = (c.total_pending > 0),
              !.post = sigs]

\* except Exception around one source: the message joins the errors and the
\* loop goes on to the next source
OnCollectError(c, sigs) == FinishRun([c EXCEPT !.errors = @ + 1], sigs)

\* except Exception around one signal: the message joins the errors and the
\* loop goes on to the next dict
OnSaveError(c) == [c EXCEPT !.errors = @ + 1]

\* the dictionary collect_signals_job returns
CollectResult(c) ==
    [success |-> (c.errors = 0), signals_collected |-> c.total_signals,
     signals_pending_review |-> c.total_pending, sources_processed |-> c.sources_processed,
     errors |-> c.errors]

\* collect_signals_job up to the loop over the enabled sources
CollectStart ==
    /\ ~Collecting
    /\ runsStarted < MaxRuns
    /\ runsStarted' = runsStarted + 1
    /\ LET enabled == { s.id : s \in { x \in sources : x.enabled } }
           started == [IdleRun EXCEPT !.no = runsStarted + 1, !.pre = NonDeleted,
                                      !.post = signals, !.enabled = enabled]
       IN  IF enabled = {}
           THEN coll' = [started EXCEPT !.pc = "done"]
           ELSE \E q \in Perms(enabled) : coll' = [started EXCEPT !.pc = "collect", !.queue = q]
    /\ UNCHANGED <<call, sched, briefState, signals, entities, links, nextId, sources, _ENTITY_CACHE,
                   lastExtract, entityOps>>

\* BaseCollector.update_source_metadata on the row of the collector's source
update_source_metadata(row, success) ==
    IF success THEN [row EXCEPT !.error_count = 0, !.last_error = None]
    ELSE [row EXCEPT !.error_count = @ + 1, !.last_error = "error"]

\* LinkedInCollector.collect when the login or the scrape raises: the handler
\* around the page records the failure and raises again, and the handler
\* around the whole collection records what it catches
LinkedInScrapeFailed(row) ==
    update_source_metadata(update_source_metadata(row, FALSE), FALSE)

\* collector.collect() for the next source: the fetch raises, or (a web page)
\* answers with a status other than 200 and collect returns no dicts, or (a
\* LinkedIn scrape) the failure happens on the page, where the inner handler
\* and then the outer one each record it, or the job skips a LinkedIn source
\* it has no browser or credentials for, or the entries of the feed become
\* signal dicts. failed_collects is the history of a source: the calls of
\* collect that failed since the last one that succeeded.
CollectSource ==
    /\ coll.pc = "collect"
    /\ coll.queue # <<>>
    /\ LET source == CHOOSE s \in sources : s.id = Head(coll.queue)
           c1 == [coll EXCEPT !.queue = Tail(coll.queue), !.source = source.id,
                              !.attempted = @ \cup {source.id}]
           Collected(row, success) ==
               [row EXCEPT !.failed_collects = IF success THEN 0 ELSE @ + 1]
           SetSource(row) == { IF s.id = source.id THEN row ELSE s : s \in sources }
           failed == Collected(update_source_metadata(source, FALSE), FALSE)
       IN  \/ /\ sources' = SetSource(failed)
              /\ coll' = OnCollectError([c1 EXCEPT !.raised = @ + 1], signals)
              /\ UNCHANGED <<_ENTITY_CACHE, lastExtract>>
           \/ /\ source.source_type = "web"
              /\ sources' = SetSource(failed)
              /\ coll' = FinishSource(c1, signals)
              /\ UNCHANGED <<_ENTITY_CACHE, lastExtract>>
           \/ /\ source.source_type = "linkedin"
              /\ sources' = SetSource(Collected(LinkedInScrapeFailed(source), FALSE))
              /\ coll' = OnCollectError([c1 EXCEPT !.raised = @ + 1], signals)
              /\ UNCHANGED <<_ENTITY_CACHE, lastExtract>>
           \/ /\ source.source_type = "linkedin"
              /\ coll' = FinishRun([coll EXCEPT !.queue = Tail(coll.queue)], signals)
              /\ UNCHANGED <<sources, _ENTITY_CACHE, lastExtract>>
           \/ \E feed \in Feeds :
                LET cache == IF feed = <<>> THEN _ENTITY_CACHE ELSE CacheForExtract(TRUE)
                IN  /\ Cardinality(signals) + Len(feed) <= MaxRows
                    /\ nextId <= MaxIds
                    /\ sources' = SetSource(Collected(update_source_metadata(source, TRUE),
                                                      TRUE))
                    /\ _ENTITY_CACHE' = cache
                    /\ lastExtract' = IF feed = <<>> THEN lastExtract
                                      ELSE [called |-> TRUE,
                                            fresh |-> (cache.rows = _load_entity_cache)]
                    /\ \E dicts \in CollectedDicts(feed, source, cache) :
                         coll' = FinishSource([c1 EXCEPT !.pending = dicts], signals)
    /\ UNCHANGED <<call, sched, briefState, signals, entities, links, nextId, runsStarted, entityOps>>

\* variant: the query looks only among the signals of the same data source
ExistingSignalOfSource(signal_data) ==
    { s \in NonDeleted : /\ s.source_url = signal_data.source_url
                         /\ s.data_source_id = signal_data.data_source_id }

\* the deduplication query of the job
ExistingSignal(signal_data) ==
    { s \in NonDeleted : s.source_url = signal_data.source_url }

\* create_signal_from_dict: the signal is committed, then the entity is
\* found or created, then the links are committed; a link to an entity that
\* is gone fails that last commit.
create_signal_from_dict(signal_data) ==
    LET row == SignalRow(nextId, signal_data, signal_data.status, signal_data.data_source_id)
        byName == { e \in entities : e.name = signal_data.entity }
        autoCreate == signal_data.entity_ids = <<>> /\ byName = {}
        new_entity == [id |-> nextId + 1, name |-> signal_data.entity,
                       segment |-> infer_entity_segment(signal_data.entity), aliases |-> {}]
        entity_ids == IF signal_data.entity_ids # <<>> THEN signal_data.entity_ids
                      ELSE IF byName # {} THEN << (CHOOSE e \in byName : TRUE).id >>
                      ELSE << new_entity.id >>
        ents == IF autoCreate THEN entities \cup {new_entity} ELSE entities
        raised == \E i \in 1..Len(entity_ids) : \A e \in ents : e.id # entity_ids[i]
    IN  [ signal |-> row,
          entities |-> ents,
          links |-> IF raised THEN {}
                    ELSE { [signal_id |-> row.id, entity_id |-> entity_ids[i],
                            is_primary |-> (i = 1)] : i \in 1..Len(entity_ids) },
          nextId |-> IF autoCreate THEN nextId + 2 ELSE nextId + 1,
          raised |-> raised ]

\* one turn of the loop over a source's dicts
SaveSignal ==
    /\ coll.pc = "save"
    /\ LET signal_data == Head(coll.pending)
           c1 == [coll EXCEPT !.pending = Tail(coll.pending)]
       IN  IF ExistingSignal(signal_data) # {}
           THEN /\ coll' = FinishSource([c1 EXCEPT !.source_duplicates = @ + 1,
                                                   !.skipped = @ \cup {signal_data.source_url}],
                                        signals)
                /\ UNCHANGED <<signals, entities, links, nextId>>
           ELSE LET r == create_signal_from_dict(signal_data)
                    c2 == [c1 EXCEPT !.created = @ \cup {r.signal}]
                IN  /\ signals' = signals \cup {r.signal}
                    /\ entities' = r.entities
                    /\ links' = links \cup r.links
                    /\ nextId' = r.nextId
                    /\ coll' = FinishSource(
                         IF r.raised THEN OnSaveError([c2 EXCEPT !.raised = @ + 1])
                         ELSE [c2 EXCEPT !.source_signals = @ + 1,
                                         !.source_pending =
                                            @ + IF r.signal.status = "pending_review"
                                                THEN 1 ELSE 0],
                         signals')
    /\ UNCHANGED <<call, sched, briefState, sources, runsStarted, _ENTITY_CACHE, lastExtract, entityOps>>

\* the script cleanup_duplicates.py: of the live signals that share a
\* source_url the oldest stays and the others are deleted from the table
cleanup_duplicate_signals ==
    LET urls == { s.source_url : s \in NonDeleted }
        SameUrl(u) == { s \in NonDeleted : s.source_url = u }
        duplicates == { u \in urls : Cardinality(SameUrl(u)) > 1 }
        Oldest(u) == { s \in SameUrl(u) : \A t \in SameUrl(u) : s.created_at <= t.created_at }
    IN  /\ duplicates # {}
        /\ \E keep \in [duplicates -> signals] :
             /\ \A u \in duplicates : keep[u] \in Oldest(u)
             /\ LET delete == { s \in NonDeleted : s.source_url \in duplicates
                                                   /\ s # keep[s.source_url] }
                IN  /\ signals' = signals \ delete
                    /\ links' = { l \in links : \A s \in delete : l.signal_id # s.id }
        /\ UNCHANGED <<call, sched, briefState, entities, nextId, collState>>

\* ------------------------------------------------------------ specifications
Quiet == \A p \in Procs : ~Running(p)

\* Each handler and each job runs to completion before the next begins.
Next ==
    \/ Quiet /\ \E inp \in CuratorInputs : create_signal(inp)
    \/ Quiet /\ \E s \in signals : soft_delete_signal(s.id)
    \/ Quiet /\ Tick
    \/ Quiet /\ \E p \in Procs : GenStart(p)
    \/ \E p \in Procs : GenSaveThemes(p)
    \/ \E p \in Procs : GenCreateBrief(p)
    \/ \E p \in Procs : JobEvaluate(p)

\* The scheduler thread and the request threads interleave at every commit.
NextConcurrent ==
    \/ \E inp \in CuratorInputs : create_signal(inp)
    \/ \E s \in signals : soft_delete_signal(s.id)
    \/ Tick
    \/ \E p \in Procs : GenStart(p)
    \/ \E p \in Procs : GenSaveThemes(p)
    \/ \E p \in Procs : GenCreateBrief(p)
    \/ \E p \in Procs : JobEvaluate(p)

\* the default configuration: no OPENAI_API_KEY
InitUnconfigured == Init /\ openai_api_key = "missing"

Spec == InitUnconfigured /\ [][Next]_vars

SpecConcurrent == InitUnconfigured /\ [][NextConcurrent]_vars

\* A key is set (a real one or the placeholder of the sample .env): one
\* caller, and the generative service free to fail or reply per request.
InitConfigured == Init /\ openai_api_key \in {"placeholder", "valid"}

NextNarrative ==
    \/ Quiet /\ \E inp \in SignalInputs : create_signal(inp)
    \/ Quiet /\ GenStart("admin")
    \/ GenSaveThemes("admin")
    \/ GenCreateBrief("admin")
    \/ JobEvaluate("admin")

SpecNarrative == InitConfigured /\ [][NextNarrative]_vars

\* Signal collection with the curator's posts and deletions and the cleanup
\* script around it: a collection run goes to completion before anything
\* else begins.
NextCollect ==
    \/ ~Collecting /\ \E inp \in SourceInputs : create_data_source(inp)
    \/ ~Collecting /\ \E inp \in CuratorInputs : create_signal(inp)
    \/ ~Collecting /\ \E s \in signals : soft_delete_signal(s.id)
    \/ ~Collecting /\ cleanup_duplicate_signals
    \/ CollectStart
    \/ CollectSource
    \/ SaveSignal

SpecCollect == InitUnconfigured /\ [][NextCollect]_vars

\* POST /admin/data-sources with every kind of source a collector exists for
AnySourceInputs ==
    SourceInputs \cup { [id |-> 3, name |-> "STM Association", source_type |-> "linkedin",
                         default_confidence |-> "Medium"] }

\* Signal collection over RSS, web and LinkedIn sources.
NextSources ==
    \/ ~Collecting /\ \E inp \in AnySourceInputs : create_data_source(inp)
    \/ CollectStart
    \/ CollectSource
    \/ SaveSignal

SpecSources == InitUnconfigured /\ [][NextSources]_vars

\* Signal collection with the curator's edits of the entity catalogue around it.
NextCatalogue ==
    \/ ~Collecting /\ \E inp \in SourceInputs : create_data_source(inp)
    \/ ~Collecting /\ \E inp \in EntityInputs : create_entity(inp)
    \/ ~Collecting /\ \E e \in entities, a \in AliasInputs : update_entity(e.id, a)
    \/ ~Collecting /\ \E e \in entities : delete_entity(e.id)
    \/ CollectStart
    \/ CollectSource
    \/ SaveSignal

SpecCatalogue == InitUnconfigured /\ [][NextCatalogue]_vars

\* Brief generation over a database that can fail at any commit.
NextFaulty ==
    \/ Quiet /\ \E inp \in CuratorInputs : create_signal(inp)
    \/ Quiet /\ \E p \in Procs : GenStart(p)
    \/ \E p \in Procs : GenSaveThemes(p)
    \/ \E p \in Procs : GenCreateBrief(p)
    \/ \E p \in Procs : JobEvaluate(p)
    \/ \E p \in Procs : GenFail(p)

SpecFaulty == InitUnconfigured /\ [][NextFaulty]_vars

\* Theme synthesis over a week of up to MaxCluster signals: the clustering
\* and the aggregation of confidence, each on its own.
InitSynthesis ==
    /\ InitOther
    /\ openai_api_key = "missing"
    /\ signals \in InputTables
    /\ nextId = Cardinality(signals) + 1

NextSynthesis ==
    \/ \E order \in WeekOrderings(get_signals_for_week(today)) : ApplyCluster(order)
    \/ \E order \in WeekOrderings(get_signals_for_week(today)) :
         \E i \in 1..Len(cluster_signals_by_topic(order)) :
           ApplyAggregate(cluster_signals_by_topic(order)[i].signals)

SpecSynthesis == InitSynthesis /\ [][NextSynthesis]_vars

\* The classifier on the texts of feed entries.
NextClassify == \E text \in Texts : ApplyClassify(text)

SpecClassify == InitUnconfigured /\ [][NextClassify]_vars

\* The scheduler and its two jobs.
NextScheduler ==
    \/ \E enable \in EnableStates : init_scheduler(enable)
    \/ \E id \in JobIds : TriggerFires(id)
    \/ \E id \in JobIds : GraceExpires(id)
    \/ \E id \in JobIds : ProcessJob(id)
    \/ \E id \in JobIds : RunJob(id)
    \/ \E id \in JobIds : JobDone(id)

SpecScheduler == InitUnconfigured /\ [][NextScheduler]_vars

\* The evaluator called directly on content, over a changing signals table.
InitEvaluate == Init /\ openai_api_key = "valid"

NextEvaluate ==
    \/ \E inp \in CuratorInputs : create_signal(inp)
    \/ \E s \in signals : soft_delete_signal(s.id)
    \/ \E content \in ContentInputs, outcome \in EvaluateOutcomes :
         RunEvaluation(content, outcome)

SpecEvaluate == InitEvaluate /\ [][NextEvaluate]_vars

\* The rule-based pass on content, over a changing signals table.
NextCheck ==
    \/ \E inp \in SignalInputs : create_signal(inp)
    \/ \E s \in signals : soft_delete_signal(s.id)
    \/ \E content \in CheckInputs : ApplyCheck(content)

SpecCheck == InitUnconfigured /\ [][NextCheck]_vars

\* Brief generation by one caller with any key setting, the generative
\* service free to fail or to reply with any text.
InitService == Init /\ openai_api_key \in KeyStates

NextService ==
    \/ Quiet /\ \E inp \in SignalInputs : create_signal(inp)
    \/ Quiet /\ GenStartWith("admin", AnyOutcomePairsFor(openai_api_key))
    \/ GenSaveThemes("admin")
    \/ GenCreateBrief("admin")
    \/ JobEvaluate("admin")

SpecService == InitService /\ [][NextService]_vars

\* ------------------------------------------------------------- properties
\* the results of the invocations that have returned
AllResults ==
    jobLog \cup { JobResult(job[p]) : p \in { q \in Procs : job[q].pc \in {"done", "failed"} } }

PriorResults(p) == { r \in AllResults : r.no < job[p].no }

CalendarWeek(d) == d \div (WindowDays + 1)

\* C1: when generate_weekly_brief has produced a brief for a reference date,
\* a later call with the same reference date returns that same brief, and
\* the tables weekly_briefs and themes are after the call what they were
\* before it.
C1_SameDateSameBrief ==
    \A p \in Procs :
      job[p].pc = "done" =>
        \A r \in PriorResults(p) :
          (r.ref = job[p].ref /\ r.brief_id # 0) =>
            /\ job[p].brief = r.brief_id
            /\ job[p].post.briefs = job[p].pre.briefs
            /\ job[p].post.themes = job[p].pre.themes

C1_Witness ==
    \E p \in Procs :
      /\ job[p].pc = "done"
      /\ job[p].found
      /\ \E r \in PriorResults(p) :
           r.ref = job[p].ref /\ r.made # {} /\ r.brief_id = job[p].brief
      /\ \E s \in NonDeleted : \A t \in themes : s.id \notin Range(t.signal_ids)

\* C2: no two rows of weekly_briefs have the same (week_start, week_end),
\* whichever way the invocations of the job interleave.
C2_OneBriefPerWindow ==
    \A a, b \in briefs :
      (a.week_start = b.week_start /\ a.week_end = b.week_end) => a.id = b.id

\* C3: an invocation of the job that finds the brief of its week already
\* there leaves weekly_briefs, themes, evaluation_runs and evaluation_issues
\* as they were.
C3_ExistingWeekIsReadOnly ==
    \A p \in Procs :
      (job[p].pc = "done" /\ job[p].found) => job[p].post = job[p].pre

\* C4 as stated: any two invocations whose reference dates fall in the same
\* calendar week resolve to the same brief, and the later one creates none.
C4_PerCalendarWeek ==
    \A r1, r2 \in AllResults :
      (/\ r1.brief_id # 0
       /\ r2.brief_id # 0
       /\ CalendarWeek(r1.ref) = CalendarWeek(r2.ref)) =>
        /\ r1.brief_id = r2.brief_id
        /\ (r1.no < r2.no => r2.made = {})

\* C4: brief generation is idempotent per 7-day window ending at the
\* reference date.  An invocation that starts when a brief of its own window
\* exists returns a brief of that window and creates none; invocations with
\* different reference dates resolve to different briefs, in one calendar
\* week or not.
C4_PerWindow ==
    /\ \A p \in Procs :
         (/\ job[p].pc = "done"
          /\ \E b \in job[p].pre.briefs :
               <<b.week_start, b.week_end>> = get_week_boundaries(job[p].ref)) =>
           /\ job[p].made = {}
           /\ \E b \in briefs :
                /\ b.id = job[p].brief
                /\ <<b.week_start, b.week_end>> = get_week_boundaries(job[p].ref)
    /\ \A r1, r2 \in AllResults :
         (r1.brief_id # 0 /\ r2.brief_id # 0 /\ r1.ref # r2.ref) =>
           r1.brief_id # r2.brief_id

C4_Witness ==
    \E r1, r2 \in AllResults :
      /\ r1.ref # r2.ref
      /\ CalendarWeek(r1.ref) = CalendarWeek(r2.ref)
      /\ r1.made # {}
      /\ r2.made # {}
      /\ r1.brief_id # r2.brief_id

\* C5: the Signal rows one run of collect_signals_job creates have pairwise
\* different source_url; a signal that was live when the run began is still
\* there unchanged, and the run creates no signal with its source_url.
RunSignals == IF coll.pc = "done" THEN coll.post ELSE signals

C5_OneSignalPerUrl ==
    /\ \A a, b \in coll.created : a.source_url = b.source_url => a = b
    /\ \A s \in coll.pre :
         /\ s \in RunSignals
         /\ \A c \in coll.created : c.source_url # s.source_url

C5_Witness ==
    /\ coll.pc = "done"
    /\ coll.sources_processed = 2
    /\ Cardinality(coll.created) = 1
    /\ \E s \in coll.pre : s.source_url \in coll.skipped
    /\ \E c \in coll.created : c.source_url \in coll.skipped

\* C6: no two live (not soft-deleted) signals have the same source_url,
\* after any sequence of collection runs, curator posts and soft deletes.
C6_LiveUrlsDistinct ==
    \A a, b \in NonDeleted : a.source_url = b.source_url => a.id = b.id

\* C7: no step removes a row from the signals table.
C7_NoSignalRowRemoved ==
    [][\A s \in signals : \E t \in signals' : t.id = s.id]_vars

\* C8: whenever extract_entities_from_db matches a text, the cached list it
\* matches against is the entities table as it then is: every create, update
\* and delete of an Entity before the call has invalidated the cache.
C8_ExtractSeesCatalogue == lastExtract.fresh

\* a curator's edit, no entity created by a collector, and a stale match
C8_StaleAfterCuratorEdit ==
    /\ lastExtract.called
    /\ ~lastExtract.fresh
    /\ entityOps > 0
    /\ \A e \in entities : e.id > 900 \/ e.name \in { inp.name : inp \in EntityInputs }

\* C9: generate_so_what and generate_now_what return a value whatever the
\* generative service does, so no invocation of the job fails; a field holds
\* the template text exactly when no usable key is configured or its own
\* request failed (or, for now_what, yielded fewer than two action lines).
C9_NarrativeNeverRaises ==
    \A p \in Procs :
      /\ job[p].pc # "failed"
      /\ \A i \in 1..Len(job[p].theme_dicts) :
           LET d == job[p].theme_dicts[i]
           IN  /\ ~d.so_what.raised
               /\ ~d.now_what.raised
               /\ (d.so_what.value.src = "template") <=>
                    (KeyUnavailable(openai_api_key) \/ d.so_outcome \in {"raise", "no_content"})
               /\ (d.now_what.value.src = "template") <=>
                    (KeyUnavailable(openai_api_key) \/ d.now_outcome \in {"raise", "line1"})

C9_Witness ==
    \E p \in Procs :
      /\ job[p].pc = "done"
      /\ Len(job[p].theme_dicts) = 2
      /\ \E i, j \in 1..2 :
           /\ i # j
           /\ job[p].theme_dicts[i].so_outcome = "no_content"
           /\ job[p].theme_dicts[i].so_what.value.src = "template"
           /\ job[p].theme_dicts[i].now_what.value.src = "llm"
           /\ job[p].theme_dicts[j].so_what.value.src = "llm"
           /\ job[p].theme_dicts[j].now_outcome = "raise"
           /\ job[p].theme_dicts[j].now_what.value.src = "template"

\* C10: an evaluation whose judge did not reply, for whatever reason, still
\* returns: its EvaluationRun is in the table with the four judge scores at
\* 8.0, and the judge contributes no issue.
C10_JudgeFailureFallsBack ==
    \A p \in Procs :
      \A i \in 1..Len(job[p].evals) :
        LET e == job[p].evals[i]
        IN  e.outcome # "reply" =>
              /\ ~e.raised
              /\ \E r \in evalRuns :
                   /\ r.id = e.run
                   /\ r.scores = Scores(FallbackScore, FallbackScore, FallbackScore,
                                        FallbackScore)
              /\ \A x \in evalIssues :
                   x.evaluation_run_id = e.run => x.issue.type = "hallucination"

\* C11: an evaluation whose judge failed and whose rule-based pass found no
\* issue (hallucination_score 10.0) is stored with passed = true.
C11_FallbackPasses ==
    \A p \in Procs :
      \A i \in 1..Len(job[p].evals) :
        LET e == job[p].evals[i]
        IN  (e.outcome = "call_error" /\ ~e.raised) =>
              \A r \in evalRuns :
                (r.id = e.run /\ r.hallucination_score = MaxScore) => r.passed

\* the run of such an evaluation: 10.0 and four times 8.0, not passed
C11_FallbackRunFails ==
    \E p \in Procs :
      \E i \in 1..Len(job[p].evals) :
        /\ job[p].evals[i].outcome = "call_error"
        /\ \E r \in evalRuns :
             /\ r.id = job[p].evals[i].run
             /\ r.hallucination_score = MaxScore
             /\ r.scores = Scores(FallbackScore, FallbackScore, FallbackScore, FallbackScore)
             /\ evalIssues \cap { x \in evalIssues : x.evaluation_run_id = r.id } = {}
             /\ ~r.passed

\* the five scores of a run, as evaluate_content combined them
FiveScores(r) ==
    << r.hallucination_score, r.scores.grounding_score, r.scores.relevance_score,
       r.scores.actionability_score, r.scores.coherence_score >>

\* C12: in every EvaluationRun overall_score is the arithmetic mean of the
\* five scores, and passed is true exactly when overall_score is at least 9.0.
C12_OverallIsMeanOfFive ==
    \A r \in evalRuns :
      /\ 5 * r.overall_score = Hundredths(SumSeq(FiveScores(r)))
      /\ r.passed <=> (r.overall_score >= Hundredths(PassThreshold))

\* a run that passes with a mean of exactly 9.0, its scores not all equal
C12_Witness ==
    \E r \in evalRuns :
      /\ r.passed
      /\ r.overall_score = Hundredths(PassThreshold)
      /\ r.hallucination_score # r.scores.coherence_score

CountSeverity(issues, severity) ==
    Cardinality({ i \in 1..Len(issues) : issues[i].severity = severity })

\* C13: the score check_hallucinations returns is 10.0 minus 3.0 per critical
\* issue and minus 1.5 per major issue, clamped to [0, 10]; of two contents
\* checked against the same table, the one with one more critical issue and
\* as many major issues scores 3.0 lower (or 0, if that would be negative).
C13_ScoreFromIssueCounts ==
    /\ call.op = "evaluate_content" =>
          call.hall.score =
            Clamp(MaxScore - CriticalPenalty * CountSeverity(call.hall.issues, "critical")
                           - MajorPenalty * CountSeverity(call.hall.issues, "major"))
    /\ \A c1, c2 \in ContentInputs :
         LET h1 == check_hallucinations(c1)
             h2 == check_hallucinations(c2)
         IN  (/\ CountSeverity(h2.issues, "critical")
                   = CountSeverity(h1.issues, "critical") + 1
              /\ CountSeverity(h2.issues, "major") = CountSeverity(h1.issues, "major")) =>
               h2.score = Max(0, h1.score - CriticalPenalty)

\* a summary checked with two critical issues and a major one, the table as
\* it was at the check, and the same summary naming a known entity instead
C13_Witness ==
    /\ call.op = "evaluate_content"
    /\ call.hall = check_hallucinations(call.content)
    /\ CountSeverity(call.hall.issues, "critical") = 2
    /\ CountSeverity(call.hall.issues, "major") = 1
    /\ call.hall.score = MaxScore - 2 * CriticalPenalty - MajorPenalty
    /\ \E c1 \in ContentInputs :
         /\ c1.type = call.content.type
         /\ _extract_signal_ids(c1) = _extract_signal_ids(call.content)
         /\ _extract_entities(c1) = {"Wiley"}
         /\ c1 # call.content
         /\ check_hallucinations(c1).score = call.hall.score + CriticalPenalty

C15_FailureIsReported ==
    /\ \A p \in Procs : job[p].pc \in {"idle", "save", "brief", "evaluate", "done", "failed"}
    /\ \A r \in AllResults :
         /\ r.success <=> ~r.raised
         /\ r.raised => /\ r.brief_id = 0
                        /\ r.themes_created = 0
                        /\ r.signals_processed = 0

\* the insert of the brief failed after the themes of the run were saved
C15_Witness ==
    \E r \in AllResults :
      /\ r.raised
      /\ ~r.success
      /\ r.themes_created = 0
      /\ \E t \in themes : t.id = ThemeId(r.no, 1)
      /\ \A b \in briefs : b.id # BriefId(r.no)

\* C16: of each job of the scheduler at most one instance is running at any
\* time; an instance is started with one run time however many fire times
\* had passed, and a fire time processed while an instance is running starts
\* nothing and leaves nothing waiting.
C16_OneInstanceNoBacklog ==
    \A id \in JobIds :
      /\ sched[id].instances <= 1
      /\ Len(sched[id].run_times) <= 1
      /\ sched[id].calls + sched[id].missed + sched[id].skipped + Len(sched[id].due)
           + Len(sched[id].run_times) <= sched[id].fired
      /\ ~sched[id].scheduled => sched[id].fired = 0

\* two fire times of one job were merged into the run time of the running
\* instance, and a fire time of the other job was dropped while its
\* instance was running
C16_Witness ==
    \E a, b \in JobIds :
      /\ a # b
      /\ sched[a].instances = 1
      /\ sched[a].merged = 2
      /\ Len(sched[a].run_times) = 1
      /\ sched[b].instances = 1
      /\ sched[b].skipped = 1
      /\ sched[b].due = <<>>

\* C17: cluster_signals_by_topic puts every input signal in exactly one
\* cluster, the one keyed by its topic lowercased and trimmed, and nothing
\* else; there are as many clusters as distinct normalized topics.
C17_ClustersPartitionByTopic ==
    call.op = "cluster_signals_by_topic" =>
      LET sigs == call.sigs
          clusters == call.out
          Places(s) == { <<i, j>> \in (1..Len(clusters)) \X (1..Len(sigs)) :
                           j <= Len(clusters[i].signals) /\ clusters[i].signals[j] = s }
      IN  /\ \A k \in 1..Len(sigs) :
                /\ Cardinality(Places(sigs[k])) = 1
                /\ \A pl \in Places(sigs[k]) :
                     clusters[pl[1]].topic = LowerStrip(sigs[k].topic)
          /\ \A i \in 1..Len(clusters) :
                /\ clusters[i].signals # <<>>
                /\ Range(clusters[i].signals) \subseteq Range(sigs)
          /\ Len(clusters) = Cardinality({ LowerStrip(sigs[k].topic) : k \in 1..Len(sigs) })

\* three signals, three spellings of two topics, two clusters
C17_Witness ==
    /\ call.op = "cluster_signals_by_topic"
    /\ Len(call.sigs) = 3
    /\ Cardinality({ call.sigs[k].topic : k \in 1..3 }) = 3
    /\ Len(call.out) = 2
    /\ \E i \in 1..2 : /\ Len(call.out[i].signals) = 2
                        /\ call.out[i].signals[1].topic # call.out[i].signals[2].topic

\* C18: for a non-empty cluster aggregate_confidence is High when every
\* signal is High, Medium when some signal is Low, High otherwise; it is
\* never Low.
C18_AggregateConfidence ==
    (call.op = "aggregate_confidence" /\ call.sigs # <<>>) =>
      LET conf == { call.sigs[i].confidence : i \in 1..Len(call.sigs) }
      IN  /\ conf = {"High"} => call.out = "High"
          /\ "Low" \in conf => call.out = "Medium"
          /\ (conf # {"High"} /\ "Low" \notin conf) => call.out = "High"
          /\ call.out # "Low"

\* a cluster of a High and a Medium signal comes out High
C18_Witness ==
    /\ call.op = "aggregate_confidence"
    /\ { call.sigs[i].confidence : i \in 1..Len(call.sigs) } = {"High", "Medium"}
    /\ call.out = "High"

\* the key of the ranking, spelled out from a theme dict
RankKey(d) ==
    << IF d.is_competitor THEN 1 ELSE 0, Cardinality(d.impact_areas), Len(d.signal_ids),
       CASE d.aggregate_confidence = "High" -> 3
         [] d.aggregate_confidence = "Medium" -> 2
         [] OTHER -> 1 >>

\* C19: the theme_ids of a generated WeeklyBrief are the Theme rows of its
\* theme dicts in descending lexicographic order of (competitor flag,
\* impact-area count, signal count, confidence rank); every competitor theme
\* comes before every other theme.
C19_BriefThemesRanked ==
    \A p \in Procs :
      \A b \in briefs :
        b.id \in job[p].made =>
          LET d == job[p].theme_dicts
          IN  /\ Len(b.theme_ids) = Len(d)
              /\ \A i \in 1..Len(d) :
                    \E t \in themes : /\ t.id = b.theme_ids[i]
                                      /\ t.signal_ids = d[i].signal_ids
                                      /\ t.title = d[i].topic
              /\ \A i, j \in 1..Len(d) :
                    i < j => /\ ~TupleLess(RankKey(d[i]), RankKey(d[j]))
                             /\ d[j].is_competitor => d[i].is_competitor

\* a brief whose competitor theme is first although the other theme has the
\* higher confidence rank and as many impact areas and signals
C19_Witness ==
    \E p \in Procs :
      \E b \in briefs :
        /\ b.id \in job[p].made
        /\ Len(b.theme_ids) = 2
        /\ job[p].theme_dicts[1].is_competitor
        /\ ~job[p].theme_dicts[2].is_competitor
        /\ job[p].theme_dicts[1].aggregate_confidence = "Medium"
        /\ job[p].theme_dicts[2].aggregate_confidence = "High"
        /\ ThemeById(b.theme_ids[1]).title = job[p].theme_dicts[1].topic

\* C20: classify_text returns None, or a record whose topic is not null and
\* whose impact_areas is not empty, and is exactly [Ops] when no impact
\* keyword group matches the text; a text that matches an event-type keyword
\* and no topic keyword yields None.
C20_AcceptedHasTopicAndAreas ==
    call.op = "classify_text" =>
      LET words == call.text.words
          SomeGroup(dict) == \E i \in 1..Len(dict) : dict[i].keywords \cap words # {}
      IN  /\ ~call.out.none =>
                /\ call.out.topic # None
                /\ call.out.topic \in { TOPIC_KEYWORDS[i].name : i \in 1..Len(TOPIC_KEYWORDS) }
                /\ call.out.impact_areas # <<>>
                /\ ~SomeGroup(IMPACT_AREA_KEYWORDS) => call.out.impact_areas = <<"Ops">>
          /\ (SomeGroup(EVENT_TYPE_KEYWORDS) /\ ~SomeGroup(TOPIC_KEYWORDS)) => call.out.none

\* a text with "announce" and "open access" is accepted with the default
\* area; a long text with two event keywords, an impact keyword and no topic
\* keyword is rejected
C20_Witness ==
    /\ call.op = "classify_text"
    /\ call.text.words = {"announce", "open access"}
    /\ call.out = [none |-> FALSE, event_type |-> "announcement", topic |-> "Open Access",
                   impact_areas |-> <<"Ops">>]
    /\ classify_text([long |-> TRUE, words |-> {"announce", "hire", "contract"}]).none

\* C21: every Theme row has a so_what that is not the empty string and a
\* now_what of two or three actions, whatever the generative service did:
\* not called, raised, or replied with any text.
C21_NarrativeShape ==
    \A t \in themes :
      /\ t.so_what.size >= 1
      /\ t.now_what.size >= MinActions
      /\ t.now_what.size <= MaxActions

\* a theme saved with the service's empty reply as its so_what, its
\* now_what cut to three of the four lines of the reply
C21_EmptySoWhatSaved ==
    \E t \in themes :
      /\ t.so_what.src = "llm"
      /\ t.so_what.size = 0
      /\ t.now_what.src = "llm"
      /\ t.now_what.size = MaxActions

\* the entity names of the signals a theme cites
SignalEntities(t) == { s.entity : s \in { x \in signals : x.id \in Range(t.signal_ids) } }

\* C22: with no usable key, the so_what and the now_what of every theme are
\* template text that contains the theme's topic and the entity name of at
\* least one of the theme's signals.
C22_TemplateNamesTopicAndEntity ==
    KeyUnavailable(openai_api_key) =>
      \A t \in themes :
        \A n \in {t.so_what, t.now_what} :
          /\ n.src = "template"
          /\ n.topic = t.title
          /\ n.names \cap SignalEntities(t) # {}

\* a theme of two entities: its template so_what gives their number and no
\* name, its template now_what names both
C22_ManyPlayersNoName ==
    /\ KeyUnavailable(openai_api_key)
    /\ \E t \in themes :
         /\ Cardinality(SignalEntities(t)) = 2
         /\ t.so_what.src = "template"
         /\ t.so_what.topic = t.title
         /\ t.so_what.names = {}
         /\ t.now_what.names = SignalEntities(t)

\* C23: with the key missing or the placeholder, no request goes to the
\* generative service: not for a so_what, not for a now_what, not for the
\* judge's scores.
C23_NoRequestWithoutCredential ==
    KeyUnavailable(openai_api_key) =>
      \A p \in Procs :
        /\ \A i \in 1..Len(job[p].theme_dicts) :
             /\ ~job[p].theme_dicts[i].so_what.called
             /\ ~job[p].theme_dicts[i].now_what.called
        /\ \A i \in 1..Len(job[p].evals) : ~job[p].evals[i].requested

\* the placeholder key: the narratives came from the templates without a
\* request, and the judge's request went out and failed
C23_JudgeRequestWithPlaceholder ==
    /\ openai_api_key = "placeholder"
    /\ \E p \in Procs :
         /\ Len(job[p].theme_dicts) > 0
         /\ \A i \in 1..Len(job[p].theme_dicts) :
              /\ ~job[p].theme_dicts[i].so_what.called
              /\ ~job[p].theme_dicts[i].now_what.called
         /\ \E i \in 1..Len(job[p].evals) :
              /\ job[p].evals[i].requested
              /\ job[p].evals[i].outcome = "call_error"

\* the signal ids a content cites, and the entities it names
CitedIds(content) ==
    IF content.type = "theme" THEN Range(content.signal_ids)
    ELSE UNION { Range(content.key_insights[i].signal_ids)
                 : i \in 1..Len(content.key_insights) }

NamedEntities(content) ==
    IF content.type = "theme" THEN content.key_players
    ELSE UNION { content.key_insights[i].entities : i \in 1..Len(content.key_insights) }

\* the ids of the rows of signals that are not soft-deleted
LiveIds == { s.id : s \in { x \in signals : ~x.deleted } }

\* a step in which check_hallucinations is called
Checked == call'.op = "check_hallucinations" /\ call' # call

CitedEntityFields(content) ==
    LET cited == { s \in signals : ~s.deleted /\ s.id \in CitedIds(content) }
    IN  { s.entity : s \in cited } \cup UNION { s.entity_tags : s \in cited }

\* C25: whenever a content names an entity that is not among the entity
\* fields of the live signals it cites, check_hallucinations returns a
\* critical issue; also for content that cites no signal at all.
C25_FabricatedEntityIsCritical ==
    [][Checked =>
         LET h == call'.out
         IN  NamedEntities(call'.content) \ CitedEntityFields(call'.content) # {} =>
               \E i \in 1..Len(h.issues) :
                 /\ h.issues[i].severity = "critical"
                 /\ h.issues[i].entities # {}]_vars

\* a theme that names a key player and cites no signal comes back clean
C25_NoCheckWithoutSignalIds ==
    /\ call.op = "check_hallucinations"
    /\ call.content.type = "theme"
    /\ call.content.signal_ids = <<>>
    /\ call.content.key_players # {}
    /\ call.out = [score |-> MaxScore, issues |-> <<>>]

\* C26: for a signal summary check_hallucinations returns a major issue
\* exactly when total_signals differs from the number of distinct signal
\* ids its insights cite.
C26_CountOfDistinctIds ==
    [][(Checked /\ call'.content.type = "signal_summary") =>
         LET h == call'.out
         IN  (\E i \in 1..Len(h.issues) : h.issues[i].severity = "major")
               <=> (call'.content.total_signals # Cardinality(CitedIds(call'.content)))]_vars

\* two insights cite the same live signal and the summary claims one
\* signal: a major issue, and no other
C26_SharedIdCountedTwice ==
    /\ call.op = "check_hallucinations"
    /\ call.content.type = "signal_summary"
    /\ Len(call.content.key_insights) = 2
    /\ CitedIds(call.content) = {1}
    /\ 1 \in LiveIds
    /\ call.content.total_signals = 1
    /\ Len(call.out.issues) = 1
    /\ call.out.issues[1].severity = "major"

\* C27: every signal with a row in signal_entities has exactly one such row
\* marked primary, after any collection runs and any edits of the entity
\* catalogue.
C27_OnePrimaryLink ==
    \A s \in signals :
      LET mine == { l \in links : l.signal_id = s.id }
      IN  mine # {} => Cardinality({ l \in mine : l.is_primary }) = 1

\* a collected signal that matched two entities, after the entity of its
\* primary link was deleted: the link that is left is not primary
C27_PrimaryLinkGone ==
    \E s \in coll.created :
      LET mine == { l \in links : l.signal_id = s.id }
      IN  /\ s \in signals
          /\ s.entity_tags # {}
          /\ Cardinality(mine) = 1
          /\ \A l \in mine : ~l.is_primary
          /\ \A e \in entities : e.name # s.entity

\* the briefs whose theme_ids hold the id of a theme
BriefsOf(t) == { b \in briefs : t.id \in Range(b.theme_ids) }

\* C28: when no invocation of the job is under way, every row of themes is
\* in the theme_ids of exactly one row of weekly_briefs, also after an
\* invocation that failed between save_themes and create_weekly_brief.
C28_ThemeInOneBrief ==
    Quiet => \A t \in themes : Cardinality(BriefsOf(t)) = 1

\* an invocation failed after save_themes had committed: its themes are in
\* the table and in no brief, and a later invocation for the same date made
\* a brief of themes of its own
C28_OrphanThemes ==
    /\ Quiet
    /\ \E r \in jobLog \cup { JobResult(job[p]) : p \in { q \in Procs : job[q].pc = "failed" } } :
         /\ r.raised
         /\ \E t \in themes : t.id = ThemeId(r.no, 1) /\ BriefsOf(t) = {}
         /\ \E p \in Procs :
              /\ job[p].pc = "done"
              /\ job[p].ref = r.ref
              /\ job[p].no > r.no
              /\ job[p].made # {}
              /\ \A b \in briefs : b.id \in job[p].made => ThemeId(r.no, 1) \notin Range(b.theme_ids)

\* C29: error_count of a data source is the number of calls of collect that
\* failed since the last one that succeeded, one per failed call whatever the
\* collector, and a source whose last collect succeeded has no last_error
C29_ErrorCountIsFailedCollects ==
    \A s \in sources : /\ s.error_count = s.failed_collects
                        /\ (s.failed_collects = 0 => s.last_error = None)

\* one failed LinkedIn collect has counted twice
C29_LinkedInFailureCountedTwice ==
    \E s \in sources : /\ s.source_type = "linkedin"
                        /\ s.failed_collects = 1
                        /\ s.error_count = 2

\* C30: signals_collected in the result of collect_signals_job is the number
\* of Signal rows the run persisted, so a save that joined the errors left no
\* row in the table
C30_CollectedCountsPersistedRows ==
    coll.pc = "done" =>
        CollectResult(coll).signals_collected = Cardinality(coll.created)

\* a finished run whose only save is in the errors, its row in the table and
\* without a link, and a count of zero
C30_RowOfFailedSaveStays ==
    /\ coll.pc = "done"
    /\ CollectResult(coll).errors = 1
    /\ CollectResult(coll).signals_collected = 0
    /\ \E s \in coll.created \cap signals : \A l \in links : l.signal_id # s.id

====
